---- MODULE Spec2Model ----
(***************************************************************************)
(* Stripe -> Meta Conversions API webhook bridge.                          *)
(*                                                                         *)
(* Two handlers of POST /stripe/webhook are modelled: handleStripeWebhook  *)
(* of server.js (impl = "server") and the Purchase-only handler of the     *)
(* second source file (impl = "legacy").  A request is handled in steps    *)
(* that end at each await of the code: the handler runs synchronously up   *)
(* to the re-fetch call or the first POST, and resumes when that call      *)
(* returns.                                                                *)
(*                                                                         *)
(* Data representation.  A JavaScript string that the code transforms      *)
(* (currency codes, emails) is a sequence of one-character strings.  Ids   *)
(* and names the code only copies are TLA+ strings.  An optional value is  *)
(* the empty set (null / undefined) or a singleton set.  A JavaScript      *)
(* object with optional keys is a record whose DOMAIN is the set of keys   *)
(* that are present after JSON serialisation.  A decimal number is a       *)
(* record [num, den] standing for num / den.                               *)
(*                                                                         *)
(* Left out of the payload: client_ip_address, client_user_agent and       *)
(* test_event_code, which depend on the request headers and                *)
(* FB_TEST_EVENT_CODE only.  In the Purchase-only                          *)
(* handler env.pixelId stands for FB_PIXEL_ID || META_PIXEL_ID and         *)
(* env.accessToken for FB_ACCESS_TOKEN || FB_CAPI_TOKEN.                   *)
(***************************************************************************)
EXTENDS Integers, Sequences, FiniteSets, TLC

VARIABLES pc, req, fetched, facts, body, retries, attempt, outcomes, result, response, log, now

vars == <<pc, req, fetched, facts, body, retries, attempt, outcomes, result, response, log, now>>

(***************************************************************************)
(* Bounds of the model.                                                    *)
(***************************************************************************)
MaxEmailLen == 2
MaxAmountSteps == 2
MaxRetries == 4
MaxLineItems == 2
MaxClock == 1

(***************************************************************************)
(* Optional values and JavaScript truthiness.                              *)
(***************************************************************************)
None == {}

Some(v) == {v}

Val(o) == CHOOSE v \in o : TRUE

\* truthiness of an optional string: null, undefined and "" are falsy
TruthyStr(o) == o # None /\ Val(o) # <<>>

\* truthiness of an optional number: null, undefined and 0 are falsy
TruthyNum(o) == o # None /\ Val(o) # 0

\* a || b on optional strings
OrStr(a, b) == IF TruthyStr(a) THEN a ELSE b

\* a ?? b
Nullish(a, b) == IF a # None THEN a ELSE b

EmptyObject == <<>>

(***************************************************************************)
(* Strings as sequences of characters.                                     *)
(***************************************************************************)
LowerLetters == <<"a","b","c","d","e","f","g","h","i","j","k","l","m",
                  "n","o","p","q","r","s","t","u","v","w","x","y","z">>

UpperLetters == <<"A","B","C","D","E","F","G","H","I","J","K","L","M",
                  "N","O","P","Q","R","S","T","U","V","W","X","Y","Z">>

IndexIn(c, letters) == CHOOSE i \in 1..Len(letters) : letters[i] = c

IsIn(c, letters) == \E i \in 1..Len(letters) : letters[i] = c

UpperChar(c) == IF IsIn(c, LowerLetters) THEN UpperLetters[IndexIn(c, LowerLetters)] ELSE c

LowerChar(c) == IF IsIn(c, UpperLetters) THEN LowerLetters[IndexIn(c, UpperLetters)] ELSE c

toUpperCase(s) == [i \in 1..Len(s) |-> UpperChar(s[i])]

toLowerCase(s) == [i \in 1..Len(s) |-> LowerChar(s[i])]

IsSpace(c) == c = " "

RECURSIVE trimStart(_)
trimStart(s) == IF s # <<>> /\ IsSpace(Head(s)) THEN trimStart(Tail(s)) ELSE s

RECURSIVE trimEnd(_)
trimEnd(s) == IF s # <<>> /\ IsSpace(s[Len(s)]) THEN trimEnd(SubSeq(s, 1, Len(s) - 1)) ELSE s

trim(s) == trimEnd(trimStart(s))

\* crypto.createHash('sha256').update(x).digest('hex'): an injective map of
\* the hashed text to a digest string, which no input string equals.
sha256Hex(s) == <<"#">> \o s

USD == <<"U","S","D">>

(***************************************************************************)
(* Helpers of server.js.                                                   *)
(***************************************************************************)
\* a hash of the lowercased text that is not trimmed
sha256LowerNoTrim(s) == IF TruthyStr(s) THEN Some(sha256Hex(toLowerCase(Val(s)))) ELSE None

\* s ? sha256(String(s).trim().toLowerCase()) : null
sha256Lower(s) == IF TruthyStr(s) THEN Some(sha256Hex(toLowerCase(trim(Val(s))))) ELSE None

ZERO_DECIMAL_CURRENCIES ==
    { <<"B","I","F">>, <<"C","L","P">>, <<"D","J","F">>, <<"G","N","F">>,
      <<"J","P","Y">>, <<"K","M","F">>, <<"K","R","W">>, <<"M","G","A">>,
      <<"P","Y","G">>, <<"R","W","F">>, <<"U","G","X">>, <<"V","N","D">>,
      <<"V","U","V">>, <<"X","A","F">>, <<"X","O","F">>, <<"X","P","F">> }

Decimal(n, d) == [num |-> n, den |-> d]

\* returns None for undefined
convertAmount(amountMinor, currency) ==
    IF amountMinor = None THEN None
    ELSE IF toUpperCase(currency) \in ZERO_DECIMAL_CURRENCIES
         THEN Some(Decimal(Val(amountMinor), 1))
         ELSE Some(Decimal(Val(amountMinor), 100))

(***************************************************************************)
(* Stripe objects.  One record shape serves every object type; a field the *)
(* type does not carry is None.  payment_intent is None, an id string      *)
(* ([expanded |-> FALSE]) or an expanded object ([expanded |-> TRUE]).     *)
(* line_items is the sequence line_items.data (empty when absent).         *)
(***************************************************************************)
BlankObject(id) ==
    [ id |-> id, status |-> None, currency |-> None,
      amount_total |-> None, amount_paid |-> None, amount_refunded |-> None,
      amount_due |-> None, amount |-> None, unit_amount |-> None,
      customer_details_email |-> None, customer_email |-> None, email |-> None,
      billing_details_email |-> None, charges_email |-> None, customer_obj_email |-> None,
      payment_intent |-> None, line_items |-> <<>> ]

EVENT_SOURCE_URL == "https://stripe.teampumpkin.in"

LEGACY_SOURCE_URL == "https://pay.stripe.com"

handled ==
    { "checkout.session.created", "checkout.session.completed",
      "checkout.session.async_payment_succeeded", "payment_intent.succeeded",
      "invoice.payment_succeeded", "checkout.session.expired",
      "checkout.session.async_payment_failed", "customer.created",
      "customer.subscription.created", "customer.subscription.updated",
      "customer.subscription.deleted", "charge.refunded",
      "invoice.payment_failed", "payment_intent.payment_failed" }

\* the kinds whose case of the switch awaits a retrieve call
NeedsRefetch(type) ==
    type \in { "checkout.session.completed", "checkout.session.async_payment_succeeded",
               "payment_intent.succeeded" }

LegacyHandled(type) ==
    type \in { "checkout.session.completed", "checkout.session.async_payment_succeeded" }

\* the locals of handleStripeWebhook as declared before the switch
InitialFacts ==
    [ email |-> None, amountMinor |-> None, currency |-> USD, orderId |-> None,
      eventId |-> None, eventName |-> None, contentIds |-> <<>>, numItems |-> None ]

\* a reduce that counts the line items instead of adding their quantities
RECURSIVE SumQuantityCount(_)
SumQuantityCount(items) ==
    IF items = <<>> THEN 0 ELSE 1 + SumQuantityCount(Tail(items))

RECURSIVE SumQuantity(_)
SumQuantity(items) ==
    IF items = <<>> THEN 0 ELSE Head(items).quantity + SumQuantity(Tail(items))

RECURSIVE Products(_)
Products(items) ==
    IF items = <<>> THEN <<>>
    ELSE IF Head(items).product # None
         THEN <<Val(Head(items).product)>> \o Products(Tail(items))
         ELSE Products(Tail(items))

\* typeof pi === 'string' ? pi : pi?.id || session.id
SessionOrderId(session) ==
    IF session.payment_intent = None THEN Some(session.id)
    ELSE IF ~ Val(session.payment_intent).expanded THEN Some(Val(session.payment_intent).id)
    ELSE Some(Val(session.payment_intent).id)

\* String(x) of an object that is not a string
ObjectAsString == "[object Object]"

\* obj.payment_intent || obj.id, as String(orderId) renders it in custom_data:
\* an expanded payment intent is kept as the object, not replaced by its id
ChargeOrderId(obj) ==
    IF obj.payment_intent = None THEN Some(obj.id)
    ELSE IF ~ Val(obj.payment_intent).expanded THEN Some(Val(obj.payment_intent).id)
    ELSE Some(ObjectAsString)

\* the two status branches exchanged
subscriptionUpdatedNameSwapped(status) ==
    IF status = Some("active") THEN Some("PaymentFailed")
    ELSE IF status = Some("past_due") THEN Some("RenewSubscription")
    ELSE None

subscriptionUpdatedName(status) ==
    IF status = Some("active") THEN Some("RenewSubscription")
    ELSE IF status = Some("past_due") THEN Some("PaymentFailed")
    ELSE None

\* The switch of handleStripeWebhook.  obj is event.data.object; rec is the
\* re-fetched record (used by the cases that retrieve one).
ServerFacts(type, obj, rec) ==
    LET f == InitialFacts IN
    CASE type = "checkout.session.created" ->
           [f EXCEPT !.eventName = Some("InitiateCheckout"), !.eventId = Some(obj.id),
                     !.currency = toUpperCase(Val(OrStr(obj.currency, Some(f.currency)))),
                     !.amountMinor = Nullish(obj.amount_total, None),
                     !.email = OrStr(obj.customer_details_email, OrStr(obj.customer_email, None)),
                     !.orderId = Some(obj.id)]
      [] type \in {"checkout.session.completed", "checkout.session.async_payment_succeeded"} ->
           [f EXCEPT !.eventName = Some("Purchase"), !.eventId = Some(rec.id),
                     !.currency = Val(OrStr(rec.currency, Some(f.currency))),
                     !.amountMinor = Nullish(rec.amount_total, None),
                     !.email = OrStr(rec.customer_details_email, OrStr(rec.customer_email, None)),
                     !.orderId = SessionOrderId(rec),
                     !.contentIds = Products(rec.line_items),
                     !.numItems = IF rec.line_items # <<>> THEN Some(SumQuantity(rec.line_items))
                                  ELSE None]
      [] type = "payment_intent.succeeded" ->
           [f EXCEPT !.eventName = Some("Purchase"), !.eventId = Some(rec.id),
                     !.currency = Val(OrStr(rec.currency, Some(f.currency))),
                     !.amountMinor = Nullish(rec.amount, None),
                     !.email = OrStr(rec.charges_email, None),
                     !.orderId = Some(rec.id)]
      [] type = "invoice.payment_succeeded" ->
           [f EXCEPT !.eventName = Some("Purchase"), !.eventId = Some(obj.id),
                     !.currency = Val(OrStr(obj.currency, Some(f.currency))),
                     !.amountMinor = Nullish(obj.amount_paid, None),
                     !.email = OrStr(obj.customer_email, None),
                     !.orderId = Some(obj.id)]
      [] type \in {"checkout.session.expired", "checkout.session.async_payment_failed"} ->
           [f EXCEPT !.eventName = Some("AbandonCheckout"), !.eventId = Some(obj.id),
                     !.currency = Val(OrStr(obj.currency, Some(f.currency))),
                     !.amountMinor = Nullish(obj.amount_total, None),
                     !.email = OrStr(obj.customer_details_email, OrStr(obj.customer_email, None)),
                     !.orderId = Some(obj.id)]
      [] type = "customer.created" ->
           [f EXCEPT !.eventName = Some("Lead"), !.eventId = Some(obj.id),
                     !.email = OrStr(obj.email, None)]
      [] type = "customer.subscription.created" ->
           [f EXCEPT !.eventName = Some("Subscribe"), !.eventId = Some(obj.id),
                     !.email = OrStr(obj.customer_email, None),
                     !.orderId = Some(obj.id),
                     !.currency = Val(OrStr(obj.currency, Some(f.currency))),
                     !.amountMinor = Nullish(obj.unit_amount, None)]
      [] type = "customer.subscription.updated" ->
           [f EXCEPT !.eventName = subscriptionUpdatedName(obj.status), !.eventId = Some(obj.id),
                     !.email = OrStr(obj.customer_email, None),
                     !.orderId = Some(obj.id)]
      [] type = "customer.subscription.deleted" ->
           [f EXCEPT !.eventName = Some("CancelSubscription"), !.eventId = Some(obj.id),
                     !.email = OrStr(obj.customer_email, None),
                     !.orderId = Some(obj.id)]
      [] type = "charge.refunded" ->
           [f EXCEPT !.eventName = Some("Refund"), !.eventId = Some(obj.id),
                     !.email = OrStr(obj.billing_details_email, None),
                     !.currency = Val(OrStr(obj.currency, Some(f.currency))),
                     !.amountMinor = Nullish(obj.amount_refunded, None),
                     !.orderId = ChargeOrderId(obj)]
      [] type \in {"invoice.payment_failed", "payment_intent.payment_failed"} ->
           [f EXCEPT !.eventName = Some("PaymentFailed"), !.eventId = Some(obj.id),
                     !.email = OrStr(obj.customer_email, OrStr(obj.charges_email, None)),
                     !.orderId = Some(obj.id),
                     !.currency = Val(OrStr(obj.currency, Some(f.currency))),
                     !.amountMinor = Nullish(obj.amount_due, Nullish(obj.amount, None))]
      [] OTHER -> f

(***************************************************************************)
(* Payload builders.  The result is the JSON body posted: a key whose      *)
(* value is undefined is not a key of the record.                          *)
(***************************************************************************)
Field(present, rcd) == IF present THEN rcd ELSE EmptyObject

\* user_data of both builders
userData(email) == Field(TruthyStr(email), [em |-> <<Val(sha256Lower(email))>>])

\* a builder that sets content_type whether or not there are content ids
sendEventToMetaBodyAlwaysType(f, value) ==
    LET custom_data ==
            Field(f.currency # <<>>, [currency |-> toUpperCase(f.currency)])
            @@ Field(value # None, [value |-> Val(value)])
            @@ Field(f.orderId # None, [order_id |-> Val(f.orderId)])
            @@ Field(f.contentIds # <<>>, [content_ids |-> f.contentIds])
            @@ Field(TruthyNum(f.numItems), [num_items |-> Val(f.numItems)])
            @@ [content_type |-> "product"]
    IN  [ event_name |-> f.eventName, action_source |-> "website",
          event_source_url |-> EVENT_SOURCE_URL,
          user_data |-> userData(f.email), custom_data |-> custom_data ]
        @@ Field(f.eventId # None, [event_id |-> Val(f.eventId)])

\* sendEventToMeta of server.js, for value = convertAmount(amountMinor, currency)
sendEventToMetaBody(f, value) ==
    LET custom_data ==
            Field(f.currency # <<>>, [currency |-> toUpperCase(f.currency)])
            @@ Field(value # None, [value |-> Val(value)])
            @@ Field(f.orderId # None, [order_id |-> Val(f.orderId)])
            @@ Field(f.contentIds # <<>>, [content_ids |-> f.contentIds])
            @@ Field(TruthyNum(f.numItems), [num_items |-> Val(f.numItems)])
            @@ Field(f.contentIds # <<>>, [content_type |-> "product"])
    IN  [ event_name |-> f.eventName, action_source |-> "website",
          event_source_url |-> EVENT_SOURCE_URL,
          user_data |-> userData(f.email), custom_data |-> custom_data ]
        @@ Field(f.eventId # None, [event_id |-> Val(f.eventId)])

\* the locals the Purchase-only handler computes from the event's session
\* and the re-fetched session
LegacyFacts(session, fullSession) ==
    LET amountTotal == Nullish(fullSession.amount_total, session.amount_total) IN
    [ email |-> OrStr(fullSession.customer_details_email,
                  OrStr(fullSession.customer_obj_email,
                    OrStr(fullSession.customer_email, None))),
      amountTotal |-> amountTotal,
      currency |-> toUpperCase(Val(OrStr(fullSession.currency, OrStr(session.currency, Some(USD))))),
      value |-> IF TruthyNum(amountTotal) THEN Decimal(Val(amountTotal), 100) ELSE Decimal(0, 1),
      orderId |-> SessionOrderId(fullSession),
      eventId |-> Some(session.id) ]

\* a builder that sends the order id as event_id
sendPurchaseToMetaBodyOrderAsId(f) ==
    LET custom_data ==
            [ currency |-> toUpperCase(f.currency),
              value |-> IF f.value.num # 0 THEN f.value ELSE Decimal(0, 1) ]
            @@ Field(f.orderId # None, [order_id |-> Val(f.orderId)])
    IN  [ event_name |-> Some("Purchase"), action_source |-> "website",
          event_source_url |-> LEGACY_SOURCE_URL,
          user_data |-> userData(f.email), custom_data |-> custom_data ]
        @@ Field(f.orderId # None, [event_id |-> Val(f.orderId)])

\* sendPurchaseToMeta of the Purchase-only handler
sendPurchaseToMetaBody(f) ==
    LET custom_data ==
            [ currency |-> toUpperCase(f.currency),
              value |-> IF f.value.num # 0 THEN f.value ELSE Decimal(0, 1) ]
            @@ Field(f.orderId # None, [order_id |-> Val(f.orderId)])
    IN  [ event_name |-> Some("Purchase"), action_source |-> "website",
          event_source_url |-> LEGACY_SOURCE_URL,
          user_data |-> userData(f.email), custom_data |-> custom_data ]
        @@ Field(f.eventId # None, [event_id |-> Val(f.eventId)])

(***************************************************************************)
(* Inputs.  A request carries the environment read at request time (which  *)
(* of the four required values are set), whether constructEvent accepts    *)
(* the body and signature header, and the event the body parses to.        *)
(***************************************************************************)
EmailAlphabet == {"a", "A", " "}

RECURSIVE StringsUpTo(_, _)
StringsUpTo(alphabet, n) ==
    IF n = 0 THEN { <<>> }
    ELSE LET shorter == StringsUpTo(alphabet, n - 1)
         IN  shorter \cup { Append(s, c) : s \in shorter, c \in alphabet }

Emails == StringsUpTo(EmailAlphabet, MaxEmailLen)

EmailOptions == {None} \cup { Some(e) : e \in Emails }

SecondaryEmailOptions == { None, Some(<<"A", "a">>) }

Amounts == {0} \cup { 250 * k : k \in 1..MaxAmountSteps }

AmountOptions == {None} \cup { Some(a) : a \in Amounts }

SecondaryAmountOptions == { None, Some(750) }

CurrencyOptions ==
    { None, Some(<<"u","s","d">>), Some(<<"j","p","y">>), Some(<<"J","P","Y">>), Some(<<"K","r","w">>) }

PaymentIntentOptions ==
    { None, Some([expanded |-> FALSE, id |-> "pi_1"]), Some([expanded |-> TRUE, id |-> "pi_1"]) }

LineItemValues ==
    { [product |-> Some("prod_1"), quantity |-> 1],
      [product |-> Some("prod_2"), quantity |-> 2],
      [product |-> None, quantity |-> 3] }

RECURSIVE LineItemSeqs(_)
LineItemSeqs(n) ==
    IF n = 0 THEN { <<>> }
    ELSE LET shorter == LineItemSeqs(n - 1)
         IN  shorter \cup { Append(s, li) : s \in shorter, li \in LineItemValues }

StatusOptions == { Some("active"), Some("past_due"), Some("canceled") }

\* The values an object is generated from: two emails (the field read first
\* and its fallback), currency, two amounts, payment intent, line items,
\* status.  The generated objects vary one group of values at a time around
\* the default.
DefaultValues ==
    [ e1 |-> Some(<<"a">>), e2 |-> None, cur |-> Some(<<"u","s","d">>),
      a1 |-> Some(250), a2 |-> None, pin |-> None, items |-> <<>>,
      st |-> Some("active") ]

ObjectValues ==
    { [DefaultValues EXCEPT !.e1 = e1, !.e2 = e2] : e1 \in EmailOptions, e2 \in SecondaryEmailOptions }
    \cup { [DefaultValues EXCEPT !.cur = c, !.a1 = a1, !.a2 = a2] :
             c \in CurrencyOptions, a1 \in AmountOptions, a2 \in SecondaryAmountOptions }
    \cup { [DefaultValues EXCEPT !.pin = p, !.items = it] :
             p \in PaymentIntentOptions, it \in LineItemSeqs(MaxLineItems) }
    \cup { [DefaultValues EXCEPT !.st = st] : st \in StatusOptions }

ObjectId(type) ==
    CASE type \in { "checkout.session.created", "checkout.session.completed",
                    "checkout.session.async_payment_succeeded", "checkout.session.expired",
                    "checkout.session.async_payment_failed" } -> "cs_1"
      [] type \in { "payment_intent.succeeded", "payment_intent.payment_failed" } -> "pi_1"
      [] type \in { "invoice.payment_succeeded", "invoice.payment_failed" } -> "in_1"
      [] type = "customer.created" -> "cus_1"
      [] type \in { "customer.subscription.created", "customer.subscription.updated",
                    "customer.subscription.deleted" } -> "sub_1"
      [] type = "charge.refunded" -> "ch_1"
      [] OTHER -> "obj_1"

\* the Stripe object of an event of the given type, with the values v in the
\* fields that objects of that type carry
MkObject(type, v) ==
    LET o == BlankObject(ObjectId(type)) IN
    CASE type \in { "checkout.session.created", "checkout.session.completed",
                    "checkout.session.async_payment_succeeded", "checkout.session.expired",
                    "checkout.session.async_payment_failed" } ->
           [o EXCEPT !.customer_details_email = v.e1, !.customer_email = v.e2,
                     !.currency = v.cur, !.amount_total = v.a1,
                     !.payment_intent = v.pin, !.status = v.st]
      [] type = "payment_intent.succeeded" ->
           [o EXCEPT !.charges_email = v.e1, !.currency = v.cur, !.amount = v.a1, !.status = v.st]
      [] type = "invoice.payment_succeeded" ->
           [o EXCEPT !.customer_email = v.e1, !.currency = v.cur, !.amount_paid = v.a1,
                     !.status = v.st]
      [] type = "customer.created" ->
           [o EXCEPT !.email = v.e1]
      [] type = "customer.subscription.created" ->
           [o EXCEPT !.customer_email = v.e1, !.currency = v.cur, !.unit_amount = v.a1,
                     !.status = v.st]
      [] type \in { "customer.subscription.updated", "customer.subscription.deleted" } ->
           [o EXCEPT !.customer_email = v.e1, !.currency = v.cur, !.status = v.st]
      [] type = "charge.refunded" ->
           [o EXCEPT !.billing_details_email = v.e1, !.currency = v.cur,
                     !.amount_refunded = v.a1, !.payment_intent = v.pin, !.status = v.st]
      [] type \in { "invoice.payment_failed", "payment_intent.payment_failed" } ->
           [o EXCEPT !.customer_email = v.e1, !.charges_email = v.e2, !.currency = v.cur,
                     !.amount_due = v.a1, !.amount = v.a2, !.status = v.st]
      [] OTHER -> o

UnhandledTypes == { "charge.succeeded" }

EventTypes == handled \cup UnhandledTypes

Events == { [type |-> t, object |-> MkObject(t, v)] : t \in EventTypes, v \in ObjectValues }

Environments ==
    [ stripeSecret : BOOLEAN, webhookSecret : BOOLEAN, pixelId : BOOLEAN, accessToken : BOOLEAN ]

FullEnvironment ==
    [ stripeSecret |-> TRUE, webhookSecret |-> TRUE, pixelId |-> TRUE, accessToken |-> TRUE ]

Impls == { "server", "legacy" }

\* every environment and signature outcome with the default event of every
\* type and status; every generated event with the full environment and a
\* valid signature
RequestInputs ==
    { [impl |-> i, env |-> e, sigValid |-> s, event |-> [type |-> t, object |-> MkObject(t, v)]] :
        i \in Impls, e \in Environments, s \in BOOLEAN, t \in EventTypes,
        v \in { [DefaultValues EXCEPT !.st = st] : st \in StatusOptions } }
    \cup { [impl |-> i, env |-> FullEnvironment, sigValid |-> TRUE, event |-> ev] :
             i \in Impls, ev \in Events }

\* the record a retrieve call of the given event can return: a full session
\* (with the expanded customer's email in customer_obj_email and the line
\* items) or a payment intent
MkRetrieved(type, v, ce) ==
    IF type = "payment_intent.succeeded"
    THEN MkObject(type, v)
    ELSE [MkObject(type, v) EXCEPT !.customer_obj_email = ce, !.line_items = v.items]

BlankValues ==
    [ e1 |-> None, e2 |-> None, cur |-> None, a1 |-> None, a2 |-> None, pin |-> None,
      items |-> <<>>, st |-> None ]

\* When the event's object is the default one, every generated record; else
\* the default record and the record with no values.
RetrieveResults(event) ==
    IF event.object = MkObject(event.type, DefaultValues)
    THEN { MkRetrieved(event.type, v, ce) : v \in ObjectValues \cup {BlankValues},
                                            ce \in SecondaryEmailOptions }
    ELSE { MkRetrieved(event.type, v, None) : v \in {DefaultValues, BlankValues} }

\* a POST attempt ends in a response with a status, or throws
Statuses == { 200, 204, 500 }

PostOutcomes ==
    { [threw |-> FALSE, status |-> st] : st \in Statuses } \cup { [threw |-> TRUE, status |-> 0] }

(***************************************************************************)
(* The handling of one request.  Local(r) is the state of request r: the   *)
(* handler's position, its locals, and the log of the calls it has made    *)
(* (verify, refetch, post, respond).  Each step below maps the state at    *)
(* one resumption point of the handler to the state at its next await or   *)
(* at its end.                                                             *)
(***************************************************************************)
DefaultRetries == 3

\* the locals of a request that has not arrived, and the clock it reads
BlankLocal ==
    [ pc |-> "idle", req |-> None, fetched |-> None, facts |-> None, body |-> None,
      retries |-> 0, attempt |-> 0, outcomes |-> <<>>, result |-> "pending",
      response |-> None, log |-> <<>>, now |-> 0 ]

Local(r) ==
    [ pc |-> pc[r], req |-> req[r], fetched |-> fetched[r], facts |-> facts[r],
      body |-> body[r], retries |-> retries[r], attempt |-> attempt[r],
      outcomes |-> outcomes[r], result |-> result[r], response |-> response[r],
      log |-> log[r], now |-> now ]

\* a handler whose payload is a variable of the module, shared by all
\* requests
ApplyShared(r, n) ==
    /\ pc' = [pc EXCEPT ![r] = n.pc]
    /\ req' = [req EXCEPT ![r] = n.req]
    /\ fetched' = [fetched EXCEPT ![r] = n.fetched]
    /\ facts' = [facts EXCEPT ![r] = n.facts]
    /\ body' = [x \in DOMAIN body |-> n.body]
    /\ retries' = [retries EXCEPT ![r] = n.retries]
    /\ attempt' = [attempt EXCEPT ![r] = n.attempt]
    /\ outcomes' = [outcomes EXCEPT ![r] = n.outcomes]
    /\ result' = [result EXCEPT ![r] = n.result]
    /\ response' = [response EXCEPT ![r] = n.response]
    /\ log' = [log EXCEPT ![r] = n.log]
    /\ now' = now

\* the step of request r writes the locals of r and nothing else
Apply(r, n) ==
    /\ pc' = [pc EXCEPT ![r] = n.pc]
    /\ req' = [req EXCEPT ![r] = n.req]
    /\ fetched' = [fetched EXCEPT ![r] = n.fetched]
    /\ facts' = [facts EXCEPT ![r] = n.facts]
    /\ body' = [body EXCEPT ![r] = n.body]
    /\ retries' = [retries EXCEPT ![r] = n.retries]
    /\ attempt' = [attempt EXCEPT ![r] = n.attempt]
    /\ outcomes' = [outcomes EXCEPT ![r] = n.outcomes]
    /\ result' = [result EXCEPT ![r] = n.result]
    /\ response' = [response EXCEPT ![r] = n.response]
    /\ log' = [log EXCEPT ![r] = n.log]
    /\ now' = now

\* Math.floor(Date.now() / 1000)
nowInSeconds(l) == l.now

Logged(l, entry) == [l EXCEPT !.log = Append(@, entry)]

\* res.status(s).send(text) / res.json(...): the handler ends
Respond(l, status, text) ==
    [Logged(l, [op |-> "respond", status |-> status])
       EXCEPT !.response = Some([status |-> status, body |-> text]), !.pc = "done"]

Received == "{\"received\":true}"

\* a POST whose body is stamped again with the time of the attempt
PostRestamped(l, n) ==
    [Logged(l, [op |-> "post", attempt |-> n,
                body |-> [event_time |-> nowInSeconds(l)] @@ Val(l.body)])
       EXCEPT !.attempt = n, !.pc = "posting"]

\* axios.post(url, body, ...) is issued and awaited
Post(l, n) ==
    [Logged(l, [op |-> "post", attempt |-> n, body |-> Val(l.body)])
       EXCEPT !.attempt = n, !.pc = "posting"]

\* a 2xx test that accepts status 200 only
IsSuccessOnly200(outcome) == ~ outcome.threw /\ outcome.status = 200

\* resp.status >= 200 && resp.status < 300, for a call that did not throw
IsSuccess(outcome) == ~ outcome.threw /\ outcome.status >= 200 /\ outcome.status < 300

\* a delivery that issues the first two attempts without awaiting the first
sendEventToMetaWithRetryParallel(l, payload, n) ==
    LET l1 == [l EXCEPT !.body = Some(payload), !.retries = n] IN
    IF 2 <= n THEN Post(Post(l1, 1), 2)
    ELSE IF 1 <= n THEN Post(l1, 1)
    ELSE [l1 EXCEPT !.result = "null", !.pc = "returned"]

\* sendEventToMetaWithRetry up to its first await: the loop is entered when
\* 1 <= retries, else the function returns null
sendEventToMetaWithRetry(l, payload, n) ==
    LET l1 == [l EXCEPT !.body = Some(payload), !.retries = n] IN
    IF 1 <= n THEN Post(l1, 1)
    ELSE [l1 EXCEPT !.result = "null", !.pc = "returned"]

\* sendEventToMetaWithRetry from the return of an attempt to the next await
\* or to its return
retryResume(l, outcome) ==
    LET l1 == [l EXCEPT !.outcomes = Append(@, outcome)] IN
    IF IsSuccess(outcome) THEN [l1 EXCEPT !.result = "data", !.pc = "returned"]
    ELSE IF l.attempt + 1 <= l.retries THEN Post(l1, l.attempt + 1)
    ELSE [l1 EXCEPT !.result = "null", !.pc = "returned"]

\* an acknowledgment that reports an exhausted delivery to the sender
afterDeliveryPropagating(l) ==
    IF l.pc = "returned"
    THEN IF l.result = "null" THEN Respond(l, 502, "Delivery failed") ELSE Respond(l, 200, Received)
    ELSE l

\* an acknowledgment that does not wait for the delivery to end
afterDeliveryEarly(l) ==
    IF l.pc = "returned" THEN Respond(l, 200, Received)
    ELSE IF l.pc = "posting" /\ l.response = None
         THEN [Respond(l, 200, Received) EXCEPT !.pc = "posting"]
         ELSE l

\* the handler after "await sendEventToMeta(...)": leaves the try block and
\* acknowledges
afterDelivery(l) == IF l.pc = "returned" THEN Respond(l, 200, Received) ELSE l

\* server.js: convertAmount, sendEventToMeta (whose body takes its
\* event_time from the clock when it is built), sendEventToMetaWithRetry
deliver(l, f) ==
    LET value == convertAmount(f.amountMinor, f.currency)
        l1 == [l EXCEPT !.facts = Some(f)]
        payload == sendEventToMetaBody(f, value) @@ [event_time |-> nowInSeconds(l)]
    IN  afterDelivery(sendEventToMetaWithRetry(l1, payload, DefaultRetries))

\* a configuration check that forgets the access token
ConfigMissingNoToken(env) ==
    ~ env.stripeSecret \/ ~ env.webhookSecret \/ ~ env.pixelId

\* !stripeSecret || !webhookSecret || !pixelId || !accessToken
ConfigMissing(env) ==
    ~ env.stripeSecret \/ ~ env.webhookSecret \/ ~ env.pixelId \/ ~ env.accessToken

\* a verification whose failure is swallowed
constructEventThrowsNever(input) == FALSE

\* stripe.webhooks.constructEvent(req.body, sig, webhookSecret) throws
constructEventThrows(input) == ~ input.sigValid

\* a guard that lets every event type through
NotHandledNever(type) == FALSE

\* !handled.has(event.type)
NotHandled(type) == type \notin handled

\* a catch block that answers 500
handlerCatchFailing(l) == Respond(l, 500, "Internal Server Error")

\* the catch block of the handler (logs), then the acknowledgment after it
handlerCatch(l) == Respond(l, 200, Received)

\* handleStripeWebhook from its entry to its first await or its end
handleStripeWebhook(l0, input) ==
    LET l == [l0 EXCEPT !.req = Some(input)]
        v == Logged(l, [op |-> "verify"])
        type == input.event.type
        obj == input.event.object
    IN  IF ConfigMissing(input.env) THEN Respond(l, 500, "Server misconfigured")
        ELSE IF constructEventThrows(input) THEN Respond(v, 400, "Webhook Error")
        ELSE IF NotHandled(type) THEN Respond(v, 200, Received)
        ELSE IF NeedsRefetch(type)
             THEN [Logged(v, [op |-> "refetch", id |-> obj.id]) EXCEPT !.pc = "refetch"]
             ELSE deliver(v, ServerFacts(type, obj, obj))

\* the Purchase-only handler from its entry to its first await or its end
legacyWebhook(l0, input) ==
    LET l == [l0 EXCEPT !.req = Some(input)]
        v == Logged(l, [op |-> "verify"])
        type == input.event.type
        obj == input.event.object
    IN  IF ConfigMissing(input.env) THEN Respond(l, 500, "Server misconfigured")
        ELSE IF constructEventThrows(input) THEN Respond(v, 400, "Webhook Error")
        ELSE IF LegacyHandled(type)
             THEN [Logged(v, [op |-> "refetch", id |-> obj.id]) EXCEPT !.pc = "refetch"]
             ELSE Respond(v, 200, Received)

\* the handler from the return of the retrieve call: the call threw (the
\* catch block logs, the handler acknowledges) or returned a record
refetchResume(l, ok, rec) ==
    LET input == Val(l.req)
        l1 == [l EXCEPT !.fetched = Some(rec)]
    IN  IF ~ ok THEN handlerCatch(l)
        ELSE IF input.impl = "server"
             THEN deliver(l1, ServerFacts(input.event.type, input.event.object, rec))
             ELSE LET f == LegacyFacts(input.event.object, rec)
                      payload == sendPurchaseToMetaBody(f) @@ [event_time |-> nowInSeconds(l)]
                  IN  Post([l1 EXCEPT !.facts = Some(f), !.body = Some(payload),
                                      !.retries = 1], 1)

\* a handler that a throwing POST leaves without a response
legacyPostResumeUnanswered(l, outcome) ==
    LET l1 == [l EXCEPT !.outcomes = Append(@, outcome),
                        !.result = IF outcome.threw THEN "threw" ELSE "data"]
    IN  IF outcome.threw THEN [l1 EXCEPT !.pc = "done"] ELSE Respond(l1, 200, Received)

\* the Purchase-only handler from the return of its single POST: whether it
\* threw or returned any status, the handler acknowledges
legacyPostResume(l, outcome) ==
    LET l1 == [l EXCEPT !.outcomes = Append(@, outcome),
                        !.result = IF outcome.threw THEN "threw" ELSE "data"]
    IN  IF outcome.threw THEN handlerCatch(l1) ELSE Respond(l1, 200, Received)

(***************************************************************************)
(* Actions.                                                                *)
(***************************************************************************)
Requests == DOMAIN pc

Init ==
    /\ pc = [r \in {1} |-> BlankLocal.pc]
    /\ req = [r \in {1} |-> BlankLocal.req]
    /\ fetched = [r \in {1} |-> BlankLocal.fetched]
    /\ facts = [r \in {1} |-> BlankLocal.facts]
    /\ body = [r \in {1} |-> BlankLocal.body]
    /\ retries = [r \in {1} |-> BlankLocal.retries]
    /\ attempt = [r \in {1} |-> BlankLocal.attempt]
    /\ outcomes = [r \in {1} |-> BlankLocal.outcomes]
    /\ result = [r \in {1} |-> BlankLocal.result]
    /\ response = [r \in {1} |-> BlankLocal.response]
    /\ log = [r \in {1} |-> BlankLocal.log]
    /\ now = BlankLocal.now

\* a second passes on the clock nowInSeconds reads
Tick ==
    /\ now < MaxClock
    /\ now' = now + 1
    /\ UNCHANGED << pc, req, fetched, facts, body, retries, attempt, outcomes, result,
                    response, log >>

\* a request arrives and its handler runs to its first await or its end
Start(r) ==
    /\ pc[r] = "idle"
    /\ \E input \in RequestInputs :
         Apply(r, IF input.impl = "server" THEN handleStripeWebhook(Local(r), input)
                  ELSE legacyWebhook(Local(r), input))

\* the retrieve call of request r returns or throws
RefetchReturn(r) ==
    /\ pc[r] = "refetch"
    /\ \/ Apply(r, refetchResume(Local(r), FALSE, BlankObject("none")))
       \/ \E rec \in RetrieveResults(Val(req[r]).event) : Apply(r, refetchResume(Local(r), TRUE, rec))

\* a POST attempt of the retry loop of request r returns or throws
AttemptReturn(r) ==
    /\ pc[r] = "posting"
    /\ req[r] # None
    /\ Val(req[r]).impl = "server"
    /\ \E outcome \in PostOutcomes : Apply(r, afterDelivery(retryResume(Local(r), outcome)))

\* the single POST of the Purchase-only handler returns or throws
LegacyPostReturn(r) ==
    /\ pc[r] = "posting"
    /\ req[r] # None
    /\ Val(req[r]).impl = "legacy"
    /\ \E outcome \in PostOutcomes : Apply(r, legacyPostResume(Local(r), outcome))

Next ==
    \/ \E r \in Requests : Start(r)
    \/ \E r \in Requests : RefetchReturn(r)
    \/ \E r \in Requests : AttemptReturn(r)
    \/ \E r \in Requests : LegacyPostReturn(r)
    \/ Tick

Spec == Init /\ [][Next]_vars

(***************************************************************************)
(* sendEventToMetaWithRetry called on its own, with any bound retries.     *)
(***************************************************************************)
RetryBounds == 0..MaxRetries

SamplePayload ==
    sendEventToMetaBody(ServerFacts("customer.created", MkObject("customer.created", DefaultValues),
                                    MkObject("customer.created", DefaultValues)), None)

CallWithRetry(r) ==
    /\ pc[r] = "idle"
    /\ \E n \in RetryBounds : Apply(r, sendEventToMetaWithRetry(Local(r), SamplePayload, n))

RetryAttemptReturn(r) ==
    /\ pc[r] = "posting"
    /\ req[r] = None
    /\ \E outcome \in PostOutcomes : Apply(r, retryResume(Local(r), outcome))

NextRetry ==
    \/ \E r \in Requests : CallWithRetry(r)
    \/ \E r \in Requests : RetryAttemptReturn(r)

SpecRetry == Init /\ [][NextRetry]_vars

(***************************************************************************)
(* Two requests in flight at once.  Each request takes one of a few        *)
(* inputs, and a re-fetch returns the default record or the record with no *)
(* values.                                                                 *)
(***************************************************************************)
ConcRequests == {1, 2}

MkInput(impl, sigValid, type) ==
    [ impl |-> impl, env |-> FullEnvironment, sigValid |-> sigValid,
      event |-> [type |-> type, object |-> MkObject(type, DefaultValues)] ]

ConcInputs ==
    { MkInput("server", TRUE, "checkout.session.completed"),
      MkInput("server", TRUE, "customer.created"),
      MkInput("server", FALSE, "customer.created"),
      MkInput("legacy", TRUE, "checkout.session.completed") }

ConcRetrieveResults(event) ==
    { MkRetrieved(event.type, v, None) : v \in {DefaultValues, BlankValues} }

InitConc ==
    /\ pc = [r \in ConcRequests |-> BlankLocal.pc]
    /\ req = [r \in ConcRequests |-> BlankLocal.req]
    /\ fetched = [r \in ConcRequests |-> BlankLocal.fetched]
    /\ facts = [r \in ConcRequests |-> BlankLocal.facts]
    /\ body = [r \in ConcRequests |-> BlankLocal.body]
    /\ retries = [r \in ConcRequests |-> BlankLocal.retries]
    /\ attempt = [r \in ConcRequests |-> BlankLocal.attempt]
    /\ outcomes = [r \in ConcRequests |-> BlankLocal.outcomes]
    /\ result = [r \in ConcRequests |-> BlankLocal.result]
    /\ response = [r \in ConcRequests |-> BlankLocal.response]
    /\ log = [r \in ConcRequests |-> BlankLocal.log]
    /\ now = BlankLocal.now

StartConc(r) ==
    /\ pc[r] = "idle"
    /\ \E input \in ConcInputs :
         Apply(r, IF input.impl = "server" THEN handleStripeWebhook(Local(r), input)
                  ELSE legacyWebhook(Local(r), input))

RefetchReturnConc(r) ==
    /\ pc[r] = "refetch"
    /\ \/ Apply(r, refetchResume(Local(r), FALSE, BlankObject("none")))
       \/ \E rec \in ConcRetrieveResults(Val(req[r]).event) :
            Apply(r, refetchResume(Local(r), TRUE, rec))

NextConc ==
    \/ \E r \in Requests : StartConc(r)
    \/ \E r \in Requests : RefetchReturnConc(r)
    \/ \E r \in Requests : AttemptReturn(r)
    \/ \E r \in Requests : LegacyPostReturn(r)

SpecConc == InitConc /\ [][NextConc]_vars

(***************************************************************************)
(* Every outbound call eventually returns or fails: a pending re-fetch or  *)
(* POST is a promise of the Stripe client or of axios (with a timeout),    *)
(* which the event loop resumes once it settles.                           *)
(***************************************************************************)
SpecLive ==
    /\ Init /\ [][Next]_vars
    /\ WF_vars(RefetchReturn(1))
    /\ WF_vars(AttemptReturn(1))
    /\ WF_vars(LegacyPostReturn(1))

(***************************************************************************)
(* Properties.                                                             *)
(***************************************************************************)
Calls(r, op) == SelectSeq(log[r], LAMBDA e : e.op = op)

NumCalls(r, op) == Len(Calls(r, op))

Started(r) == req[r] # None

Input(r) == Val(req[r])

Verified(r) == Started(r) /\ ~ ConfigMissing(Input(r).env) /\ Input(r).sigValid

Answered(r, status, text) == response[r] = Some([status |-> status, body |-> text])

\* the event types each handler recognizes
Recognized(impl, type) ==
    IF impl = "server"
    THEN type \in { "checkout.session.created", "checkout.session.completed",
                    "checkout.session.async_payment_succeeded", "payment_intent.succeeded",
                    "invoice.payment_succeeded", "checkout.session.expired",
                    "checkout.session.async_payment_failed", "customer.created",
                    "customer.subscription.created", "customer.subscription.updated",
                    "customer.subscription.deleted", "charge.refunded",
                    "invoice.payment_failed", "payment_intent.payment_failed" }
    ELSE type \in { "checkout.session.completed", "checkout.session.async_payment_succeeded" }

Is2xx(outcome) == ~ outcome.threw /\ outcome.status \in 200..299

\* C1: a request whose configuration is present and whose signature verifies
\* is never answered with anything but 200 {received: true}, and is answered
\* so once its handler has ended, whatever the event kind, the re-fetch
\* outcome and the delivery outcomes were.
C1_VerifiedAlwaysAcknowledged ==
    \A r \in Requests :
        Verified(r) =>
            /\ response[r] = None \/ Answered(r, 200, Received)
            /\ pc[r] = "done" => Answered(r, 200, Received)
            /\ NumCalls(r, "respond") <= 1
            /\ \A i \in 1..Len(log[r]) : log[r][i].op = "respond" => log[r][i].status = 200

\* every delivery attempt of a verified request failed, by status or by
\* exception, and the request is acknowledged
C1_Witness ==
    \E r \in Requests :
        /\ Verified(r) /\ pc[r] = "done" /\ Answered(r, 200, Received)
        /\ Input(r).impl = "server"
        /\ NumCalls(r, "post") = DefaultRetries
        /\ \E i, j \in 1..Len(outcomes[r]) : outcomes[r][i].threw /\ outcomes[r][j].status = 500
        /\ \A i \in 1..Len(outcomes[r]) : ~ Is2xx(outcomes[r][i])

\* C2: a request whose configuration is present and whose signature does not
\* verify is answered 400 and makes no re-fetch call and no delivery attempt.
C2_InvalidSignatureRejected ==
    \A r \in Requests :
        (Started(r) /\ ~ ConfigMissing(Input(r).env) /\ ~ Input(r).sigValid) =>
            /\ pc[r] = "done"
            /\ response[r] # None /\ Val(response[r]).status = 400
            /\ NumCalls(r, "refetch") = 0
            /\ NumCalls(r, "post") = 0

C2_Witness ==
    \E r \in Requests :
        /\ Started(r) /\ ~ ConfigMissing(Input(r).env) /\ ~ Input(r).sigValid
        /\ Input(r).impl = "server"
        /\ Input(r).event.type = "checkout.session.completed"
        /\ pc[r] = "done" /\ Val(response[r]).status = 400
        /\ NumCalls(r, "verify") = 1

\* C3: a request that finds any of the four required configuration values
\* absent is answered 500 and makes no signature verification, no re-fetch
\* and no delivery attempt, whatever its signature and event kind.
C3_MissingConfigurationRejected ==
    \A r \in Requests :
        (Started(r) /\ \E k \in DOMAIN Input(r).env : ~ Input(r).env[k]) =>
            /\ pc[r] = "done"
            /\ response[r] # None /\ Val(response[r]).status = 500
            /\ NumCalls(r, "verify") = 0
            /\ NumCalls(r, "refetch") = 0
            /\ NumCalls(r, "post") = 0

\* only the access credential is absent; the signature is valid and the
\* event kind is recognized
C3_Witness ==
    \E r \in Requests :
        /\ Started(r)
        /\ Input(r).env = [FullEnvironment EXCEPT !.accessToken = FALSE]
        /\ Input(r).sigValid
        /\ Input(r).event.type = "invoice.payment_succeeded"
        /\ Input(r).impl = "server"
        /\ pc[r] = "done" /\ Val(response[r]).status = 500
        /\ log[r] = << [op |-> "respond", status |-> 500] >>

\* C4: a verified request whose event kind is not recognized by its handler
\* is acknowledged with 200 {received: true} and makes no re-fetch call and
\* no delivery attempt.
C4_UnrecognizedKindDropped ==
    \A r \in Requests :
        (Verified(r) /\ ~ Recognized(Input(r).impl, Input(r).event.type)) =>
            /\ pc[r] = "done"
            /\ Answered(r, 200, Received)
            /\ NumCalls(r, "refetch") = 0
            /\ NumCalls(r, "post") = 0

C4_Witness ==
    \E r \in Requests :
        /\ Verified(r) /\ Input(r).impl = "server"
        /\ Input(r).event.type = "charge.succeeded"
        /\ pc[r] = "done" /\ Answered(r, 200, Received)
        /\ NumCalls(r, "verify") = 1

\* position of the first 2xx outcome of a sequence, 0 when there is none
FirstSuccess(oc) ==
    IF \E i \in 1..Len(oc) : Is2xx(oc[i])
    THEN CHOOSE i \in 1..Len(oc) : Is2xx(oc[i]) /\ \A j \in 1..(i - 1) : ~ Is2xx(oc[j])
    ELSE 0

\* C5: a call of sendEventToMetaWithRetry with bound retries = N makes k POST
\* attempts when the first 2xx outcome is the k-th (k <= N) and returns the
\* response data; it makes N attempts and returns null when none of the
\* first N outcomes is 2xx; it makes no attempt after a 2xx.
C5_RetryLoop ==
    \A r \in Requests :
        (req[r] = None /\ pc[r] # "idle") =>
            LET N == retries[r]
                oc == outcomes[r]
                posts == NumCalls(r, "post")
                k == FirstSuccess(oc)
            IN  /\ posts <= N
                /\ \A i \in 1..posts : Calls(r, "post")[i].attempt = i
                /\ k # 0 => posts = k /\ Len(oc) = k /\ pc[r] = "returned" /\ result[r] = "data"
                /\ pc[r] = "posting" => Len(oc) = posts - 1 /\ k = 0 /\ result[r] = "pending"
                /\ (pc[r] = "returned" /\ k = 0) => posts = N /\ Len(oc) = N /\ result[r] = "null"
                /\ pc[r] \in {"posting", "returned"}

\* outcomes 500, 500, 200 with N = 3: three attempts and success
C5_Witness ==
    \E r \in Requests :
        /\ req[r] = None /\ retries[r] = 3 /\ pc[r] = "returned"
        /\ outcomes[r] = << [threw |-> FALSE, status |-> 500], [threw |-> FALSE, status |-> 500],
                            [threw |-> FALSE, status |-> 200] >>
        /\ NumCalls(r, "post") = 3
        /\ result[r] = "data"

\* C6: a verified 'customer.subscription.updated' event whose status is
\* neither 'active' nor 'past_due' makes no delivery attempt, so no payload
\* with an unset event name is posted.
C6_OtherStatusIsNoOp ==
    \A r \in Requests :
        (/\ Verified(r)
         /\ Input(r).impl = "server"
         /\ Input(r).event.type = "customer.subscription.updated"
         /\ Input(r).event.object.status \notin {Some("active"), Some("past_due")}) =>
            /\ NumCalls(r, "post") = 0
            /\ \A i \in 1..Len(log[r]) :
                 log[r][i].op = "post" => log[r][i].body.event_name # None

\* the refetch call of request r was made and threw
RefetchFailed(r) == NumCalls(r, "refetch") = 1 /\ pc[r] # "refetch" /\ fetched[r] = None

\* C7: when the re-fetch call of a 'checkout session completed', 'async
\* payment succeeded' or 'payment intent succeeded' event fails, no delivery
\* attempt is made for the request and the request is acknowledged with 200
\* {received: true}; a delivery attempt for such an event is made only after
\* the re-fetch has returned a record.
C7_RefetchFailureAborts ==
    \A r \in Requests :
        /\ RefetchFailed(r) =>
              /\ NumCalls(r, "post") = 0
              /\ pc[r] = "done"
              /\ Answered(r, 200, Received)
        /\ (Verified(r) /\ NumCalls(r, "post") > 0
              /\ Input(r).event.type \in { "checkout.session.completed",
                                           "checkout.session.async_payment_succeeded",
                                           "payment_intent.succeeded" }) =>
              fetched[r] # None

C7_Witness ==
    \E r \in Requests :
        /\ Verified(r) /\ Input(r).impl = "server"
        /\ Input(r).event.type = "payment_intent.succeeded"
        /\ RefetchFailed(r)
        /\ pc[r] = "done" /\ Answered(r, 200, Received)
        /\ NumCalls(r, "post") = 0

\* equality of two decimals
DecEq(x, y) == x.num * y.den = y.num * x.den

\* the minor-unit amount and the currency code a handler extracted
ExtractedAmount(r) ==
    IF Input(r).impl = "server" THEN Val(facts[r]).amountMinor ELSE Val(facts[r]).amountTotal

ExtractedCurrency(r) == Val(facts[r]).currency

ZeroDecimalCodes ==
    { <<"B","I","F">>, <<"C","L","P">>, <<"D","J","F">>, <<"G","N","F">>,
      <<"J","P","Y">>, <<"K","M","F">>, <<"K","R","W">>, <<"M","G","A">>,
      <<"P","Y","G">>, <<"R","W","F">>, <<"U","G","X">>, <<"V","N","D">>,
      <<"V","U","V">>, <<"X","A","F">>, <<"X","O","F">>, <<"X","P","F">> }

\* the value the claim of C8 gives for amount a and currency c
NormalizedValue(a, c) ==
    IF toUpperCase(c) \in ZeroDecimalCodes THEN Decimal(a, 1) ELSE Decimal(a, 100)

\* C8: for every numeric minor-unit amount a and currency code c, the value
\* in the posted payload is a for a zero-decimal currency (compared without
\* regard to case) and a / 100 for every other currency.
C8_ValueNormalized ==
    \A r \in Requests :
        (Started(r) /\ body[r] # None /\ ExtractedAmount(r) # None) =>
            /\ "value" \in DOMAIN Val(body[r]).custom_data
            /\ DecEq(Val(body[r]).custom_data.value,
                     NormalizedValue(Val(ExtractedAmount(r)), ExtractedCurrency(r)))

\* C8, for handleStripeWebhook of server.js alone: the value in the posted
\* payload is a for a zero-decimal currency and a / 100 otherwise.
C8_ServerValueNormalized ==
    \A r \in Requests :
        (Started(r) /\ Input(r).impl = "server" /\ body[r] # None /\ ExtractedAmount(r) # None) =>
            /\ "value" \in DOMAIN Val(body[r]).custom_data
            /\ DecEq(Val(body[r]).custom_data.value,
                     NormalizedValue(Val(ExtractedAmount(r)), ExtractedCurrency(r)))

\* C9: when the extracted minor-unit amount is absent, the posted payload's
\* custom_data carries no value field.
C9_AbsentAmountOmitted ==
    \A r \in Requests :
        (Started(r) /\ body[r] # None /\ ExtractedAmount(r) = None) =>
            "value" \notin DOMAIN Val(body[r]).custom_data

\* C9, for handleStripeWebhook of server.js alone.
C9_ServerAbsentAmountOmitted ==
    \A r \in Requests :
        (Started(r) /\ Input(r).impl = "server" /\ body[r] # None /\ ExtractedAmount(r) = None) =>
            "value" \notin DOMAIN Val(body[r]).custom_data

\* the string-valued fields of a posted body that hold text (sequences of
\* characters)
TextFields(b) ==
    (IF "em" \in DOMAIN b.user_data
       THEN { b.user_data.em[i] : i \in 1..Len(b.user_data.em) } ELSE {})
    \cup (IF "currency" \in DOMAIN b.custom_data THEN { b.custom_data.currency } ELSE {})

\* the trimmed, lowercased form of every generated email, and the user_data
\* built from it
NormalizedEmail == [ e \in Emails |-> toLowerCase(trim(e)) ]

UserDataOf == [ e \in Emails |-> userData(Some(e)) ]

\* the non-empty generated emails that differ from e only in case or in
\* surrounding whitespace
SameNormalizedTable ==
    [ e \in Emails |-> { o \in Emails : o # <<>> /\ NormalizedEmail[o] = NormalizedEmail[e] } ]

SameNormalized(e) ==
    IF e \in Emails THEN SameNormalizedTable[e]
    ELSE { o \in Emails : o # <<>> /\ NormalizedEmail[o] = toLowerCase(trim(e)) }

\* C10: in every posted body the extracted email appears only as the hash of
\* its trimmed, lowercased form in user_data.em, and no field holds the raw
\* email; a request with no email (absent or empty) posts no em field; every
\* non-empty email that differs from the extracted one only in case or in
\* surrounding whitespace gives the same user_data.
C10_EmailOnlyHashed ==
    \A r \in Requests :
        \A i \in 1..Len(log[r]) :
            (Started(r) /\ log[r][i].op = "post") =>
                LET b == log[r][i].body
                    email == Val(facts[r]).email
                IN  IF email # None /\ Val(email) # <<>>
                    THEN /\ "em" \in DOMAIN b.user_data
                         /\ b.user_data.em = << sha256Hex(toLowerCase(trim(Val(email)))) >>
                         /\ Val(email) \notin TextFields(b)
                         /\ \A other \in SameNormalized(Val(email)) :
                              UserDataOf[other] = b.user_data
                    ELSE "em" \notin DOMAIN b.user_data

\* a body was posted for an email with an upper-case letter and surrounding
\* whitespace, which another email normalizes to as well
C10_Witness ==
    \E r \in Requests :
        /\ Started(r) /\ NumCalls(r, "post") > 0
        /\ Val(facts[r]).email = Some(<<" ", "A">>)
        /\ Val(body[r]).user_data.em = << sha256Hex(<<"a">>) >>
        /\ userData(Some(<<"a">>)) = Val(body[r]).user_data

\* the posts of request r, as log entries
Posts(r) == Calls(r, "post")

CompletedCheckout(type) ==
    type \in { "checkout.session.completed", "checkout.session.async_payment_succeeded" }

\* the conversion name the mapping table gives; the table has no entry for a
\* subscription update of another status
TableName(type, status) ==
    CASE type = "checkout.session.created" -> "InitiateCheckout"
      [] type \in { "checkout.session.completed", "checkout.session.async_payment_succeeded",
                    "payment_intent.succeeded", "invoice.payment_succeeded" } -> "Purchase"
      [] type \in { "checkout.session.expired", "checkout.session.async_payment_failed" } ->
           "AbandonCheckout"
      [] type = "customer.created" -> "Lead"
      [] type = "customer.subscription.created" -> "Subscribe"
      [] type = "customer.subscription.updated" /\ status = Some("active") -> "RenewSubscription"
      [] type = "customer.subscription.updated" /\ status = Some("past_due") -> "PaymentFailed"
      [] type = "customer.subscription.deleted" -> "CancelSubscription"
      [] type = "charge.refunded" -> "Refund"
      [] type \in { "invoice.payment_failed", "payment_intent.payment_failed" } -> "PaymentFailed"

InTable(type, status) ==
    /\ type \in { "checkout.session.created", "checkout.session.completed",
                  "checkout.session.async_payment_succeeded", "payment_intent.succeeded",
                  "invoice.payment_succeeded", "checkout.session.expired",
                  "checkout.session.async_payment_failed", "customer.created",
                  "customer.subscription.created", "customer.subscription.updated",
                  "customer.subscription.deleted", "charge.refunded",
                  "invoice.payment_failed", "payment_intent.payment_failed" }
    /\ type = "customer.subscription.updated" => status \in { Some("active"), Some("past_due") }

\* C11: every payload posted for a verified event of a recognized kind has
\* the event_name the mapping table gives for the kind (and, for a
\* subscription update, for the status active or past_due).
C11_EventNameFollowsTable ==
    \A r \in Requests :
        \A i \in 1..Len(log[r]) :
            (/\ Started(r) /\ log[r][i].op = "post"
             /\ InTable(Input(r).event.type, Input(r).event.object.status)) =>
                log[r][i].body.event_name
                    = Some(TableName(Input(r).event.type, Input(r).event.object.status))

C11_Witness ==
    \E r \in Requests :
        /\ Started(r) /\ Input(r).impl = "server"
        /\ Input(r).event.type = "customer.subscription.updated"
        /\ Input(r).event.object.status = Some("past_due")
        /\ Len(Posts(r)) > 0
        /\ Posts(r)[1].body.event_name = Some("PaymentFailed")

\* C12: every posted payload carries as event_id the id of the object the
\* inbound event is about, whatever record the re-fetch returned; two
\* handlings of the same event therefore post equal event_ids.
C12_EventIdIsObjectId ==
    \A r \in Requests :
        \A i \in 1..Len(log[r]) :
            (Started(r) /\ log[r][i].op = "post") =>
                /\ "event_id" \in DOMAIN log[r][i].body
                /\ log[r][i].body.event_id = Input(r).event.object.id

\* a completed checkout whose re-fetched session has a payment intent: the
\* order id is the payment intent's, the event id the session's
C12_Witness ==
    \E r \in Requests :
        /\ Started(r) /\ Input(r).impl = "legacy"
        /\ Input(r).event.type = "checkout.session.completed"
        /\ Len(Posts(r)) > 0
        /\ Posts(r)[1].body.custom_data.order_id = "pi_1"
        /\ Posts(r)[1].body.event_id = "cs_1"

\* the emails of a re-fetched session that a handler reads
RefetchedEmails(impl, rec) ==
    { e \in { rec.customer_details_email, rec.customer_email } : TruthyStr(e) }
    \cup (IF impl = "legacy" /\ TruthyStr(rec.customer_obj_email)
            THEN { rec.customer_obj_email } ELSE {})

\* the body b of a Purchase agrees with the re-fetched session rec
FromRefetched(impl, b, rec) ==
    /\ IF rec.amount_total = None
       THEN "value" \notin DOMAIN b.custom_data
       ELSE /\ "value" \in DOMAIN b.custom_data
            /\ DecEq(b.custom_data.value,
                     NormalizedValue(Val(rec.amount_total), b.custom_data.currency))
    /\ TruthyStr(rec.currency) => b.custom_data.currency = toUpperCase(Val(rec.currency))
    /\ b.custom_data.order_id
         = (IF rec.payment_intent = None THEN rec.id ELSE Val(rec.payment_intent).id)
    /\ IF RefetchedEmails(impl, rec) = {}
       THEN "em" \notin DOMAIN b.user_data
       ELSE /\ "em" \in DOMAIN b.user_data
            /\ \E e \in RefetchedEmails(impl, rec) :
                 b.user_data.em = << sha256Hex(toLowerCase(trim(Val(e)))) >>

\* C13: the Purchase payload of a 'checkout session completed' or 'async
\* payment succeeded' event takes its facts from the re-fetched session:
\* value is its normalized amount_total, currency its currency in upper
\* case, order_id its payment-intent id (the session id when there is no
\* payment intent), and the hashed email its customer email.
C13_PurchaseFromRefetched ==
    \A r \in Requests :
        \A i \in 1..Len(log[r]) :
            (Started(r) /\ log[r][i].op = "post" /\ CompletedCheckout(Input(r).event.type)) =>
                FromRefetched(Input(r).impl, log[r][i].body, Val(fetched[r]))

\* C13, for handleStripeWebhook of server.js alone.
C13_ServerPurchaseFromRefetched ==
    \A r \in Requests :
        \A i \in 1..Len(log[r]) :
            (/\ Started(r) /\ Input(r).impl = "server" /\ log[r][i].op = "post"
             /\ CompletedCheckout(Input(r).event.type)) =>
                FromRefetched(Input(r).impl, log[r][i].body, Val(fetched[r]))

\* position in the log of the first entry with the given op, 0 if none
FirstIndex(r, op) ==
    IF \E i \in 1..Len(log[r]) : log[r][i].op = op
    THEN CHOOSE i \in 1..Len(log[r]) :
           log[r][i].op = op /\ \A j \in 1..(i - 1) : log[r][j].op # op
    ELSE 0

\* the handler of request r awaits a re-fetch for its event kind
AwaitsRefetch(r) ==
    IF Input(r).impl = "server"
    THEN Input(r).event.type \in { "checkout.session.completed",
                                   "checkout.session.async_payment_succeeded",
                                   "payment_intent.succeeded" }
    ELSE CompletedCheckout(Input(r).event.type)

\* C14: within one request, a re-fetch call is made only after the signature
\* verified, at most once; a delivery attempt of a kind that needs a
\* re-fetch is made only after the re-fetch returned a record; and at most
\* one delivery attempt is in flight, attempt i+1 starting only after
\* attempt i has completed.
C14_StepsOrdered ==
    \A r \in Requests :
        Started(r) =>
            LET posts == Posts(r)
                inFlight == Len(posts) - Len(outcomes[r])
            IN  /\ NumCalls(r, "refetch") <= 1
                /\ NumCalls(r, "verify") <= 1
                /\ NumCalls(r, "refetch") = 1 =>
                      /\ Input(r).sigValid
                      /\ FirstIndex(r, "verify") # 0
                      /\ FirstIndex(r, "verify") < FirstIndex(r, "refetch")
                /\ (Len(posts) > 0 /\ AwaitsRefetch(r)) =>
                      /\ fetched[r] # None
                      /\ FirstIndex(r, "refetch") # 0
                      /\ FirstIndex(r, "refetch") < FirstIndex(r, "post")
                /\ Len(posts) > 0 =>
                      FirstIndex(r, "verify") # 0 /\ FirstIndex(r, "verify") < FirstIndex(r, "post")
                /\ inFlight \in {0, 1}
                /\ inFlight = 1 <=> pc[r] = "posting"
                /\ \A i \in 1..Len(posts) : posts[i].attempt = i

\* a completed checkout delivered in three sequential attempts after its
\* re-fetch
C14_Witness ==
    \E r \in Requests :
        /\ Started(r) /\ Input(r).impl = "server"
        /\ Input(r).event.type = "checkout.session.completed"
        /\ NumCalls(r, "refetch") = 1
        /\ Len(Posts(r)) = 3 /\ Len(outcomes[r]) = 2
        /\ pc[r] = "posting"

\* C15: a request is not answered while a delivery attempt of it is in
\* flight, and makes no call after its response: the response is the last
\* entry of its log.
C15_AckAfterDelivery ==
    \A r \in Requests :
        Started(r) =>
            /\ pc[r] = "posting" => response[r] = None /\ NumCalls(r, "respond") = 0
            /\ \A i \in 1..Len(log[r]) : log[r][i].op = "respond" => i = Len(log[r])
            /\ response[r] # None =>
                  /\ pc[r] = "done"
                  /\ Len(Posts(r)) = Len(outcomes[r])

\* a recognized event acknowledged after its second attempt succeeded
C15_Witness ==
    \E r \in Requests :
        /\ Started(r) /\ Input(r).impl = "server"
        /\ Input(r).event.type = "charge.refunded"
        /\ Len(Posts(r)) = 2 /\ Len(outcomes[r]) = 2
        /\ Is2xx(outcomes[r][2])
        /\ pc[r] = "done" /\ Answered(r, 200, Received)
        /\ log[r][Len(log[r])].op = "respond"

\* C16: in every posted payload each optional custom_data field is present
\* only when its source value is present, and content_type is present, as
\* 'product', exactly when content_ids is present and non-empty.
C16_OptionalFieldsOmitted ==
    \A r \in Requests :
        \A i \in 1..Len(log[r]) :
            (Started(r) /\ log[r][i].op = "post") =>
                LET cd == log[r][i].body.custom_data
                    f == Val(facts[r])
                    keys == DOMAIN cd
                IN  /\ "order_id" \in keys => f.orderId # None /\ cd.order_id = Val(f.orderId)
                    /\ Input(r).impl = "legacy" =>
                          keys \cap {"content_ids", "num_items", "content_type"} = {}
                    /\ Input(r).impl = "server" =>
                          /\ "content_ids" \in keys =>
                                f.contentIds # <<>> /\ cd.content_ids = f.contentIds
                          /\ "num_items" \in keys =>
                                f.numItems # None /\ cd.num_items = Val(f.numItems)
                          /\ "content_type" \in keys <=>
                                ("content_ids" \in keys /\ Len(cd.content_ids) > 0)
                          /\ "content_type" \in keys => cd.content_type = "product"

\* a payload with num_items but neither content_ids nor content_type: no
\* line item of the session has a product
C16_Witness ==
    \E r \in Requests :
        /\ Started(r) /\ Input(r).impl = "server" /\ Len(Posts(r)) > 0
        /\ Val(facts[r]).contentIds = <<>>
        /\ "num_items" \in DOMAIN Posts(r)[1].body.custom_data
        /\ "content_type" \notin DOMAIN Posts(r)[1].body.custom_data
        /\ "content_ids" \notin DOMAIN Posts(r)[1].body.custom_data

\* sum of the quantities of the first n line items
RECURSIVE QuantityUpTo(_, _)
QuantityUpTo(items, n) == IF n = 0 THEN 0 ELSE QuantityUpTo(items, n - 1) + items[n].quantity

\* the product ids of the line items that have one, in line-item order
ProductIds(items) ==
    LET withProduct == SelectSeq(items, LAMBDA li : li.product # None)
    IN  [ i \in 1..Len(withProduct) |-> Val(withProduct[i].product) ]

\* C17: for a Purchase of server.js built from a completed checkout whose
\* re-fetched session has line items, num_items is the sum of the quantities
\* of all line items and content_ids is the sequence of the product ids of
\* the line items that have one, in line-item order.
C17_LineItems ==
    \A r \in Requests :
        \A i \in 1..Len(log[r]) :
            (/\ Started(r) /\ Input(r).impl = "server" /\ log[r][i].op = "post"
             /\ CompletedCheckout(Input(r).event.type)
             /\ Val(fetched[r]).line_items # <<>>) =>
                LET cd == log[r][i].body.custom_data
                    items == Val(fetched[r]).line_items
                IN  /\ "num_items" \in DOMAIN cd
                    /\ cd.num_items = QuantityUpTo(items, Len(items))
                    /\ IF ProductIds(items) = <<>>
                       THEN "content_ids" \notin DOMAIN cd
                       ELSE "content_ids" \in DOMAIN cd /\ cd.content_ids = ProductIds(items)

\* an item with a product followed by one without: the second counts toward
\* num_items only
C17_Witness ==
    \E r \in Requests :
        /\ Started(r) /\ Input(r).impl = "server" /\ Len(Posts(r)) > 0
        /\ fetched[r] # None
        /\ Val(fetched[r]).line_items = << [product |-> Some("prod_2"), quantity |-> 2],
                                           [product |-> None, quantity |-> 3] >>
        /\ Posts(r)[1].body.custom_data.num_items = 5
        /\ Posts(r)[1].body.custom_data.content_ids = << "prod_2" >>

\* C19: the payload of a request is built once, before the first attempt,
\* and never changes: every attempt posts the body that was built, with the
\* same event_name, event_id, event_time, user_data and custom_data, and a
\* request has one sequence of attempts, numbered from 1.
C19_RetriesPostSameBody ==
    \A r \in Requests :
        Started(r) =>
            LET posts == Posts(r) IN
            /\ Len(posts) > 0 => body[r] # None
            /\ \A i \in 1..Len(posts) :
                 /\ posts[i].body = Val(body[r])
                 /\ posts[i].body = posts[1].body
                 /\ posts[i].attempt = i
            /\ body[r] # None => Val(body[r]).event_time <= now
            /\ Len(posts) <= IF Input(r).impl = "server" THEN DefaultRetries ELSE 1

\* a third attempt made after the clock moved on from the time the payload
\* was built
C19_Witness ==
    \E r \in Requests :
        /\ Started(r) /\ Len(Posts(r)) = 3
        /\ now > Posts(r)[1].body.event_time
        /\ Posts(r)[3].body.event_time = Posts(r)[1].body.event_time

\* request r handled alone, with the input, the re-fetch result and the
\* POST outcomes it got: the state after its first step
SoloStart(input) ==
    IF input.impl = "server" THEN handleStripeWebhook(BlankLocal, input)
    ELSE legacyWebhook(BlankLocal, input)

SoloRefetched(r) ==
    LET l0 == SoloStart(Input(r)) IN
    IF l0.pc # "refetch" \/ pc[r] = "refetch" THEN l0
    ELSE IF fetched[r] = None THEN refetchResume(l0, FALSE, BlankObject("none"))
    ELSE refetchResume(l0, TRUE, Val(fetched[r]))

RECURSIVE SoloPosted(_, _, _)
SoloPosted(l, impl, oc) ==
    IF oc = <<>> THEN l
    ELSE SoloPosted(IF impl = "server" THEN afterDelivery(retryResume(l, Head(oc)))
                    ELSE legacyPostResume(l, Head(oc)),
                    impl, Tail(oc))

Solo(r) == SoloPosted(SoloRefetched(r), Input(r).impl, outcomes[r])

\* C18: under every interleaving of the steps of two requests, the response
\* of each request and the sequence of calls and payloads it has sent are
\* the ones it produces when it is handled alone with the same input and the
\* same results of its outbound calls.
C18_RequestsDoNotInterfere ==
    \A r \in Requests :
        Started(r) =>
            /\ response[r] = Solo(r).response
            /\ log[r] = Solo(r).log
            /\ Posts(r) = SelectSeq(Solo(r).log, LAMBDA e : e.op = "post")

\* both requests past their first failed attempt and in flight at once,
\* with different payloads
C18_Witness ==
    /\ DOMAIN pc = ConcRequests
    /\ pc[1] = "posting" /\ pc[2] = "posting"
    /\ Len(outcomes[1]) = 1 /\ Len(outcomes[2]) = 1
    /\ Val(body[1]).event_name # Val(body[2]).event_name

\* C20: every request that has arrived is eventually answered, on every
\* path, and is never answered twice.
C20_EveryRequestAnswered ==
    /\ \A r \in {1} : (pc[r] # "idle") ~> (response[r] # None /\ pc[r] = "done")
    /\ [](\A r \in {1} : NumCalls(r, "respond") <= 1)
    /\ [](\A r \in {1} : pc[r] = "done" => NumCalls(r, "respond") = 1)

\* a request answered once after its single POST threw
C20_Witness ==
    \E r \in Requests :
        /\ Started(r) /\ Input(r).impl = "legacy"
        /\ Len(outcomes[r]) = 1 /\ outcomes[r][1].threw
        /\ pc[r] = "done" /\ response[r] # None
        /\ NumCalls(r, "respond") = 1

====
